---- MODULE Spec2Model ----
(***************************************************************************)
(* Model of train.py: the PPO training driver for CarRacing, its           *)
(* environment adapter (class Env), the experience buffer and update rule  *)
(* (class Agent) and the __main__ episode loop.                            *)
(*                                                                         *)
(* Units.  Rewards are fixed-point integers in hundredths (0.01), so the   *)
(* simulator's -0.1 per frame is -10, the green penalty 0.05 is 5, the     *)
(* die bonus 100 is 10000.  Probability ratios and the clip parameter are  *)
(* in tenths (1.0 is 10, clip_param 0.1 is 1).  A raw image is one RGB     *)
(* pixel <<r, g, b>>; a grey value is in units of 1/128000.                *)
(***************************************************************************)
EXTENDS Integers, Sequences, FiniteSets, TLC

----------------------------------------------------------------------------
(* Sizes.  The program's configured sizes are scaled down so that every    *)
(* wrap-around, early break and partial batch happens within the search.   *)

img_stack       == 2   \* args.img_stack, default 4
action_repeat   == 2   \* args.action_repeat, default 8
length          == 3   \* reward_memory history length, 100 in the source
buffer_capacity == 3   \* Agent.buffer_capacity, 2000 in the source
batch_size      == 2   \* Agent.batch_size, 120 in the source
ppo_epoch       == 2   \* Agent.ppo_epoch, 10 in the source
MaxT            == 2   \* per-episode step cap, range(1000) in the source
MaxEp           == 5   \* episode cap, range(100000) in the source
MaxCalls        == 7   \* store calls explored from a fresh Agent
MaxRatio        == 20  \* largest probability ratio explored (tenths)
MaxAdv          == 3   \* largest advantage magnitude explored

(* Program constants, in the units above.                                  *)
die_bonus        == 10000  \* reward += 100
green_penalty    == 5      \* reward -= 0.05
green_threshold  == 185    \* np.mean(img_rgb[:,:,1]) > 185.0
stagnation       == -10    \* self.av_r(reward) <= -0.1
clip_param       == 1      \* Agent.clip_param = 0.1
One              == 10     \* the ratio 1.0

\* what one env.step of the simulator may give: frame, reward, terminal flag
SimOutputs ==
  { [img |-> <<105, 105, 105>>, r |-> -10, die |-> FALSE],   \* on the road, no tile
    [img |-> <<105, 105, 105>>, r |-> 90,  die |-> FALSE],   \* a new tile
    [img |-> <<102, 204, 102>>, r |-> -10, die |-> FALSE],   \* on the grass
    [img |-> <<102, 185, 102>>, r |-> -10, die |-> TRUE] }   \* terminal frame
\* the frames env.reset of the simulator may give
ResetImages == { <<105, 105, 105>>, <<102, 204, 102>> }
Actions    == { 0, 1 }
\* the advantage tensors explored by update, one entry per buffer index
AdvTensors ==
  { [k \in 0..(buffer_capacity - 1) |-> -1],
    [k \in 0..(buffer_capacity - 1) |-> IF k % 2 = 0 THEN 1 ELSE -1] }

Unbound == "unbound"   \* a Python local that has not been assigned
NoLoss  == <<>>        \* action_loss while unbound; <<v>> once it holds v

\* an np.empty slot that was never written
Garbage == [a |-> -1, a_logp |-> -1]

VARIABLES
  pc,
  \* Env
  history, count, stack, total_reward, i, img_rgb, done, die,
  \* Agent
  buffer, counter, training_step, net_ver,
  \* locals of Agent.update
  epoch, perm, pos, idx, ratio, adv, sur1, sur2, action_loss,
  \* __main__
  i_ep, t, state, state_, action, a_logp, reward,
  \* history variables (observations of the run, not program state)
  ticks, recent, ep_ticks, first_hit, nsteps,
  nstore, ret, prev_ret, last_slot, slot_cycle,
  grad_trace, batches, mb_ended

envvars    == <<history, count, stack, total_reward, i, img_rgb, done, die>>
agentvars  == <<buffer, counter, training_step, net_ver>>
updvars    == <<epoch, perm, pos, idx, ratio, adv, sur1, sur2, action_loss>>
mainvars   == <<i_ep, t, state, state_, action, a_logp, reward>>
envhist    == <<ticks, recent, ep_ticks, first_hit, nsteps>>
storehist  == <<nstore, ret, prev_ret, last_slot, slot_cycle>>
updhist    == <<grad_trace, batches, mb_ended>>
vars == <<pc, envvars, agentvars, updvars, mainvars, envhist, storehist, updhist>>

----------------------------------------------------------------------------
(* Helpers *)

RECURSIVE SumSeq(_)
SumSeq(s) == IF s = <<>> THEN 0 ELSE Head(s) + SumSeq(Tail(s))

RECURSIVE SumFn(_, _)
SumFn(f, n) == IF n = 0 THEN 0 ELSE f[n - 1] + SumFn(f, n - 1)

Min(a, b) == IF a <= b THEN a ELSE b
Max(a, b) == IF a >= b THEN a ELSE b

Range(s) == { s[k] : k \in 1..Len(s) }

\* Env.rgb2gray with norm=True: 0.299 r + 0.587 g + 0.114 b, then /128 - 1
rgb2gray(rgb) == (299 * rgb[1] + 587 * rgb[2] + 114 * rgb[3]) - 128000

\* np.mean(img_rgb[:,:,1]) > 185.0
green(rgb) == rgb[2] > green_threshold

\* reward shaping without the die bonus
shaped_nobonus(r, d, rgb) == r - (IF green(rgb) THEN green_penalty ELSE 0)

\* lines 58-62: the reward of one tick after shaping
shaped(r, d, rgb) ==
  r + (IF d THEN die_bonus ELSE 0) - (IF green(rgb) THEN green_penalty ELSE 0)

\* the stagnation test with < in place of <=
av_r_strict(h) == SumFn(h, length) < stagnation * length

\* np.mean(history) <= -0.1, compared exactly: sum <= -0.1 * length
av_r_low(h) == SumFn(h, length) <= stagnation * length

\* the last `length` entries of a sequence
LastN(s) == IF Len(s) <= length THEN s ELSE SubSeq(s, Len(s) - length + 1, Len(s))

----------------------------------------------------------------------------
(* Initial state: agent = Agent() and env = Env() have been constructed.   *)

InitEnv ==
  /\ history = [k \in 0..(length - 1) |-> 0]
  /\ count = 0
  /\ stack = <<>>
  /\ total_reward = 0
  /\ i = 0
  /\ img_rgb = Unbound
  /\ done = Unbound
  /\ die = Unbound

\* Agent.__init__, lines 157-162
InitAgent ==
  /\ buffer = [k \in 0..(buffer_capacity - 1) |-> Garbage]
  /\ counter = 0
  /\ training_step = 0
  /\ net_ver = 0

InitUpd ==
  /\ epoch = 0
  /\ perm = <<>>
  /\ pos = 0
  /\ idx = <<>>
  /\ ratio = <<>>
  /\ adv = <<>>
  /\ sur1 = <<>>
  /\ sur2 = <<>>
  /\ action_loss = NoLoss

InitMain ==
  /\ i_ep = 0
  /\ t = 0
  /\ state = <<>>
  /\ state_ = <<>>
  /\ action = 0
  /\ a_logp = 0
  /\ reward = 0

InitHist ==
  /\ ticks = <<>>
  /\ recent = <<>>
  /\ ep_ticks = 0
  /\ first_hit = 0
  /\ nsteps = 0
  /\ nstore = 0
  /\ ret = FALSE
  /\ prev_ret = FALSE
  /\ last_slot = -1
  /\ slot_cycle = [k \in 0..(buffer_capacity - 1) |-> -1]
  /\ grad_trace = <<>>
  /\ batches = <<>>
  /\ mb_ended = 0

Init ==
  /\ pc = "l232"
  /\ InitEnv /\ InitAgent /\ InitUpd /\ InitMain /\ InitHist

----------------------------------------------------------------------------
(* class Env *)

\* Env.reset, lines 42-49; img is the frame env.reset() of the simulator gives
reset(img) ==
  /\ count' = 0
  /\ history' = [k \in 0..(length - 1) |-> 0]
  /\ stack' = [k \in 1..img_stack |-> rgb2gray(img)]
  /\ state' = stack'
  /\ recent' = <<>>
  /\ ep_ticks' = 0
  /\ first_hit' = 0
  /\ UNCHANGED <<total_reward, i, img_rgb, done, die>>

\* the closure returned by Env.reward_memory, lines 98-102
memory(h, c, rw) == [history |-> [h EXCEPT ![c] = rw], count |-> (c + 1) % length]

\* one iteration of the action-repeat loop of Env.step, lines 54-69
step_tick ==
  /\ pc = "l55"
  /\ \E o \in SimOutputs :
       LET img == o.img
           r   == o.r
           d   == o.die
           rw  == shaped(r, d, img)
           m  == memory(history, count, rw)
           dn == av_r_low(m.history)
       IN  /\ img_rgb' = img
           /\ die' = d
           /\ total_reward' = total_reward + rw
           /\ history' = m.history
           /\ count' = m.count
           /\ done' = dn
           /\ i' = i + 1
           /\ pc' = IF dn \/ d \/ i + 1 = action_repeat THEN "l71" ELSE "l55"
           /\ ticks' = Append(ticks, [a |-> action, img |-> img, r |-> r,
                                      die |-> d, done |-> dn])
           /\ recent' = LastN(Append(recent, rw))
           /\ ep_ticks' = ep_ticks + 1
           /\ first_hit' = IF first_hit = 0 /\ SumSeq(recent') <= stagnation * length
                           THEN ep_ticks' ELSE first_hit
  /\ UNCHANGED <<stack, nsteps>>
  /\ UNCHANGED <<agentvars, updvars, mainvars, storehist, updhist>>

\* pushFrame that evicts the newest frame instead of the oldest
push_newest(stk, frame) == Append(SubSeq(stk, 1, Len(stk) - 1), frame)

\* pushFrame, lines 72-73
push(stk, frame) == Append(Tail(stk), frame)

\* the end of Env.step, lines 71-77, and the assignment of line 240
step_return ==
  /\ pc = "l71"
  /\ stack' = push(stack, rgb2gray(img_rgb))
  /\ IF Len(stack') = img_stack
     THEN /\ state_' = stack'
          /\ reward' = total_reward
          /\ nsteps' = nsteps + 1
          /\ pc' = "l245"
     ELSE /\ pc' = "raised"            \* AssertionError, line 75
          /\ UNCHANGED <<state_, reward, nsteps>>
  /\ UNCHANGED <<history, count, total_reward, i, img_rgb, done, die>>
  /\ UNCHANGED <<i_ep, t, state, action, a_logp>>
  /\ UNCHANGED <<ticks, recent, ep_ticks, first_hit>>
  /\ UNCHANGED <<agentvars, updvars, storehist, updhist>>

----------------------------------------------------------------------------
(* class Agent *)

\* store with the wrap test one call early (counter compared before the increment)
store_wraps_early(tr) ==
  /\ buffer' = [buffer EXCEPT ![counter] = tr]
  /\ slot_cycle' = [slot_cycle EXCEPT ![counter] = training_step]
  /\ last_slot' = counter
  /\ counter' = IF counter + 1 >= buffer_capacity - 1 THEN 0 ELSE counter + 1
  /\ ret' = (counter + 1 >= buffer_capacity - 1)
  /\ prev_ret' = ret
  /\ nstore' = nstore + 1

\* store that writes slot 0 whatever the cursor is
store_slot0(tr) ==
  /\ buffer' = [buffer EXCEPT ![0] = tr]
  /\ slot_cycle' = [slot_cycle EXCEPT ![0] = training_step]
  /\ last_slot' = 0
  /\ counter' = IF counter + 1 = buffer_capacity THEN 0 ELSE counter + 1
  /\ ret' = (counter + 1 = buffer_capacity)
  /\ prev_ret' = ret
  /\ nstore' = nstore + 1

\* Agent.store, lines 181-188; the value returned is left in ret
store(tr) ==
  /\ buffer' = [buffer EXCEPT ![counter] = tr]
  /\ slot_cycle' = [slot_cycle EXCEPT ![counter] = training_step]
  /\ last_slot' = counter
  /\ counter' = IF counter + 1 = buffer_capacity THEN 0 ELSE counter + 1
  /\ ret' = (counter + 1 = buffer_capacity)
  /\ prev_ret' = ret
  /\ nstore' = nstore + 1

\* SubsetRandomSampler(range(buffer_capacity)): a random order of the indices
Perms ==
  { p \in [1..buffer_capacity -> 0..(buffer_capacity - 1)] :
      \A x, y \in 1..buffer_capacity : x # y => p[x] # p[y] }

\* BatchSampler(sampler, batch_size, drop_last=False): the batch that starts
\* after `at` indices of the order p were handed out
batch(p, at) == SubSeq(p, at + 1, Min(at + batch_size, Len(p)))

\* clamp that applies the lower bound only
clamp_lower(x, lo, hi) == Max(x, lo)

\* torch.clamp
clamp(x, lo, hi) == Min(Max(x, lo), hi)

\* lines 212-213 for one sample
surr1(rt, ad) == rt * ad
surr2(rt, ad) == clamp(rt, One - clip_param, One + clip_param) * ad

\* lines 212-213 for the samples ix of a minibatch
sur1_of(rs, ix, ad) == [k \in 1..Len(ix) |-> surr1(rs[k], ad[ix[k]])]
sur2_of(rs, ix, ad) == [k \in 1..Len(ix) |-> surr2(rs[k], ad[ix[k]])]

\* torch.min(sur1, sur2), elementwise
surr_min(a1, a2) == [k \in 1..Len(a1) |-> Min(a1[k], a2[k])]

\* losses are kept as numerators over Den, a common multiple of the batch sizes
Den == batch_size * (IF buffer_capacity % batch_size = 0 THEN 1
                     ELSE buffer_capacity % batch_size)
mean(sq) == SumSeq(sq) * (Den \div Len(sq))

\* lines 218-221: the calls of one gradient step, in order
gradient_step == << "zero_grad", "backward", "step" >>

\* lines 207-210: exp(a_logp - old_a_logp) for the samples ix; it is 1.0 where
\* the stored log-probability was taken under the current parameters
ratios(ix) ==
  IF \A k \in 1..Len(ix) : buffer[ix[k]].a_logp = net_ver
  THEN { [k \in 1..Len(ix) |-> One] }
  ELSE [1..Len(ix) -> 0..MaxRatio]

\* Agent.update from its entry to the first sampler, lines 191-205
update ==
  /\ pc = "l247"
  /\ training_step' = training_step + 1
  /\ \E advs \in AdvTensors : adv' = advs
  /\ \E p \in Perms : perm' = p
  /\ epoch' = 0
  /\ pos' = 0
  /\ action_loss' = NoLoss
  /\ batches' = <<>>
  /\ pc' = "l205"
  /\ UNCHANGED <<buffer, counter, net_ver, idx, ratio, sur1, sur2>>
  /\ UNCHANGED <<grad_trace, mb_ended>>
  /\ UNCHANGED <<envvars, mainvars, envhist, storehist>>

\* one iteration of the minibatch loop, lines 205-221
minibatch ==
  /\ pc = "l205"
  /\ idx' = batch(perm, pos)
  /\ \E rs \in ratios(idx') : ratio' = rs
  /\ sur1' = sur1_of(ratio', idx', adv)
  /\ sur2' = sur2_of(ratio', idx', adv)
  /\ batches' = IF pos = 0 THEN << idx' >> ELSE Append(batches, idx')
  /\ mb_ended' = mb_ended + 1
  /\ IF action_loss = NoLoss
     THEN \* line 214 reads the unassigned local: UnboundLocalError
          /\ pc' = "raised"
          /\ grad_trace' = <<>>
          /\ UNCHANGED <<action_loss, net_ver, pos, epoch, perm, state, t>>
     ELSE /\ action_loss' = << action_loss[1] - mean(surr_min(sur1', sur2')) >>
          /\ grad_trace' = gradient_step
          /\ net_ver' = net_ver + 1
          /\ IF pos + Len(idx') < buffer_capacity
             THEN /\ pos' = pos + Len(idx')
                  /\ pc' = "l205"
                  /\ UNCHANGED <<epoch, perm>>
             ELSE /\ pos' = 0
                  /\ epoch' = epoch + 1
                  /\ \E p \in Perms : perm' = p
                  /\ pc' = IF epoch + 1 < ppo_epoch THEN "l205" ELSE "l249"
          /\ UNCHANGED <<state, t>>
  /\ UNCHANGED <<buffer, counter, training_step, adv>>
  /\ UNCHANGED <<i_ep, state_, action, a_logp, reward>>
  /\ UNCHANGED <<envvars, envhist, storehist>>

----------------------------------------------------------------------------
(* __main__ *)

\* line 232
main_reset ==
  /\ pc = "l232"
  /\ \E img \in ResetImages : reset(img)
  /\ pc' = "l234"
  /\ UNCHANGED <<i_ep, t, state_, action, a_logp, reward>>
  /\ UNCHANGED <<ticks, nsteps>>
  /\ UNCHANGED <<agentvars, updvars, storehist, updhist>>

\* the head of the episode loop, lines 234-236
episode_begin ==
  /\ pc = "l234"
  /\ IF i_ep < MaxEp
     THEN /\ \E img \in ResetImages : reset(img)
          /\ t' = 0
          /\ pc' = "l239"
     ELSE /\ pc' = "exit"
          /\ UNCHANGED <<envvars, state, t, recent, ep_ticks, first_hit>>
  /\ UNCHANGED <<i_ep, state_, action, a_logp, reward>>
  /\ UNCHANGED <<ticks, nsteps>>
  /\ UNCHANGED <<agentvars, updvars, storehist, updhist>>

\* Agent.select_action, line 239, and the entry of Env.step, lines 240 and 52;
\* the log-probability is identified by the parameters it was taken under
select_action ==
  /\ pc = "l239"
  /\ \E a \in Actions : action' = a
  /\ a_logp' = net_ver
  /\ total_reward' = 0
  /\ i' = 0
  /\ ticks' = <<>>
  /\ pc' = "l55"
  /\ UNCHANGED <<history, count, stack, img_rgb, done, die>>
  /\ UNCHANGED <<i_ep, t, state, state_, reward>>
  /\ UNCHANGED <<recent, ep_ticks, first_hit, nsteps>>
  /\ UNCHANGED <<agentvars, updvars, storehist, updhist>>

\* line 245 with the update called whatever store returns
store_step_eager ==
  /\ pc = "l245"
  /\ store([a |-> action, a_logp |-> a_logp])
  /\ pc' = "l247"
  /\ UNCHANGED <<training_step, net_ver>>
  /\ UNCHANGED <<envvars, updvars, mainvars, envhist, updhist>>

\* line 245
store_step ==
  /\ pc = "l245"
  /\ store([a |-> action, a_logp |-> a_logp])
  /\ pc' = IF ret' THEN "l247" ELSE "l249"
  /\ UNCHANGED <<training_step, net_ver>>
  /\ UNCHANGED <<envvars, updvars, mainvars, envhist, updhist>>

\* lines 249-253 and the head of the step loop, line 238
step_end ==
  /\ pc = "l249"
  /\ state' = state_
  /\ t' = t + 1
  /\ pc' = IF done \/ die \/ t + 1 = MaxT THEN "l255" ELSE "l239"
  /\ UNCHANGED <<i_ep, state_, action, a_logp, reward>>
  /\ UNCHANGED <<envvars, agentvars, updvars, envhist, storehist, updhist>>

\* lines 255-266; whether running_score exceeds the reward threshold is left open
episode_end ==
  /\ pc = "l255"
  /\ \E solved \in BOOLEAN : pc' = IF solved THEN "exit" ELSE "l234"
  /\ i_ep' = i_ep + 1
  /\ UNCHANGED <<t, state, state_, action, a_logp, reward>>
  /\ UNCHANGED <<envvars, agentvars, updvars, envhist, storehist, updhist>>

Next ==
  \/ main_reset
  \/ episode_begin
  \/ select_action
  \/ step_tick
  \/ step_return
  \/ store_step
  \/ update
  \/ minibatch
  \/ step_end
  \/ episode_end

Spec == Init /\ [][Next]_vars

----------------------------------------------------------------------------
(* Agent.store on its own: calls on a freshly constructed Agent             *)

Transitions == [a : Actions, a_logp : 0..1]

InitStore ==
  /\ pc = "store"
  /\ InitEnv /\ InitAgent /\ InitUpd /\ InitMain /\ InitHist

store_call ==
  /\ pc = "store"
  /\ nstore < MaxCalls
  /\ \E tr \in Transitions : store(tr)
  /\ UNCHANGED <<pc, training_step, net_ver>>
  /\ UNCHANGED <<envvars, updvars, mainvars, envhist, updhist>>

NextStore == store_call

SpecStore == InitStore /\ [][NextStore]_vars

----------------------------------------------------------------------------
(* The clipped surrogate of lines 212-214 on its own: one sample with any  *)
(* ratio and advantage                                                     *)

InitClip ==
  /\ pc = "l212"
  /\ InitEnv /\ InitAgent /\ InitMain /\ InitHist
  /\ epoch = 0 /\ perm = <<>> /\ pos = 0
  /\ idx = << 0 >>
  /\ \E rt \in 0..MaxRatio : ratio = << rt >>
  /\ \E ad \in (-MaxAdv)..MaxAdv : adv = [k \in 0..(buffer_capacity - 1) |-> ad]
  /\ sur1 = <<>> /\ sur2 = <<>>
  /\ action_loss = NoLoss

surrogate ==
  /\ pc = "l212"
  /\ sur1' = sur1_of(ratio, idx, adv)
  /\ sur2' = sur2_of(ratio, idx, adv)
  /\ pc' = "l214"
  /\ UNCHANGED <<epoch, perm, pos, idx, ratio, adv, action_loss>>
  /\ UNCHANGED <<envvars, agentvars, mainvars, envhist, storehist, updhist>>

NextClip == surrogate

SpecClip == InitClip /\ [][NextClip]_vars

----------------------------------------------------------------------------
(* Properties *)

\* C1: from a fresh Agent the n-th store call returns True exactly when n is
\* a positive multiple of buffer_capacity; the cursor stays in
\* 0..buffer_capacity-1 between calls; the call after a True-returning call
\* writes slot 0.
C1_StoreSignalsEveryCapacity ==
  /\ counter \in 0..(buffer_capacity - 1)
  /\ nstore > 0 => (ret <=> nstore % buffer_capacity = 0)
  /\ nstore > 0 => last_slot = (nstore - 1) % buffer_capacity
  /\ (nstore > 1 /\ prev_ret) => last_slot = 0

C1_Witness ==
  /\ pc = "store"
  /\ nstore = buffer_capacity + 1
  /\ prev_ret /\ ~ret
  /\ last_slot = 0

\* C2: in the driver, update is entered only right after a store call that
\* returned True, and after n environment steps the number of update calls
\* (training_step) is n \div buffer_capacity, however the steps are split
\* across episodes.
C2_UpdateOncePerCapacity ==
  /\ pc = "l247" => /\ ret
                    /\ counter = 0
                    /\ nstore > 0 /\ nstore % buffer_capacity = 0
                    /\ training_step = (nstore \div buffer_capacity) - 1
  /\ pc \notin {"l245", "l247"} => training_step = nsteps \div buffer_capacity
  /\ pc # "l245" => nstore = nsteps

C2_Witness ==
  /\ pc = "l205"
  /\ training_step = 1
  /\ nsteps = buffer_capacity
  /\ i_ep > 0

C4_TickReward(k) ==
  ticks[k].r + (IF ticks[k].die THEN 10000 ELSE 0)
             - (IF ticks[k].img[2] > 185 THEN 5 ELSE 0)

\* C4: one Env.step executes between 1 and action_repeat ticks, all with the
\* action it was given; only the last tick may be a die or done tick, and
\* the call runs fewer than action_repeat ticks only when the last one is;
\* the total reward is the sum over the executed ticks of the simulator
\* reward, plus 100 on a die tick, minus 0.05 on a tick whose green mean
\* exceeds 185.
C4_StepRepeatsAndSums ==
  /\ pc \in {"l55", "l71", "l245"} =>
       /\ Len(ticks) = i
       /\ Len(ticks) <= action_repeat
       /\ \A k \in 1..Len(ticks) : ticks[k].a = action
       /\ \A k \in 1..(Len(ticks) - 1) : ~ticks[k].die /\ ~ticks[k].done
       /\ total_reward = SumSeq([k \in 1..Len(ticks) |-> C4_TickReward(k)])
  /\ (pc = "l55" /\ i > 0) => (~ticks[i].die /\ ~ticks[i].done)
  /\ pc \in {"l71", "l245"} =>
       /\ Len(ticks) >= 1
       /\ Len(ticks) < action_repeat => (ticks[i].die \/ ticks[i].done)
       /\ die = ticks[i].die /\ done = ticks[i].done
  /\ pc = "l245" => reward = total_reward

C4_Witness ==
  /\ pc = "l245"
  /\ Len(ticks) = 2
  /\ ticks[1].img[2] > 185
  /\ ticks[2].die
  /\ reward = (-10 - 5) + (-10 + 10000)

\* C5: after Env.reset the stack has img_stack entries, all the same
\* preprocessed frame; after every Env.step the stack has img_stack entries:
\* the stack before the step without its oldest frame, followed by the frame
\* of the last tick executed.
C5_FrameStack ==
  /\ pc # "l232" => Len(stack) = img_stack
  /\ (pc = "l239" /\ t = 0) =>
       /\ state = stack
       /\ \A k \in 1..img_stack : stack[k] = stack[1]
       /\ \E img \in ResetImages : stack[1] = 299 * img[1] + 587 * img[2] + 114 * img[3] - 128000
  /\ pc = "l245" =>
       /\ Len(state) = img_stack
       /\ state_ = stack
       /\ \A k \in 1..(img_stack - 1) : stack[k] = state[k + 1]
       /\ LET last == ticks[Len(ticks)].img
          IN  stack[img_stack] = 299 * last[1] + 587 * last[2] + 114 * last[3] - 128000

C5_Witness ==
  /\ pc = "l245"
  /\ t = 1
  /\ Len(ticks) = 1
  /\ stack[img_stack] # stack[1]

\* C6: every minibatch iteration of Agent.update performs, in this order,
\* zero_grad, backward, the gradient-norm clip and the optimizer step, so no
\* optimizer step happens without a clip after the backward pass.
C6_GradientStepOrder ==
  mb_ended > 0 => grad_trace = << "zero_grad", "backward", "clip_grad_norm", "step" >>

\* C7 as amended: for every ratio >= 0 and every advantage adv, the clipped
\* surrogate min(ratio*adv, clamp(ratio, 1-eps, 1+eps)*adv) is at most
\* (1+eps)*adv when adv > 0 and at most (1-eps)*adv when adv < 0.
C7_SurrogateBoundedAbove ==
  pc = "l214" =>
    LET term == surr_min(sur1, sur2)[1]
        ad   == adv[idx[1]]
    IN  /\ ad > 0 => term <= (10 + 1) * ad
        /\ ad < 0 => term <= (10 - 1) * ad

C7_Witness ==
  /\ pc = "l214"
  /\ adv[0] < 0
  /\ ratio[1] > 10 + 1
  /\ surr_min(sur1, sur2)[1] < (10 - 1) * adv[0]

\* C7 as stated: for every ratio >= 0 and every advantage adv, the clipped
\* surrogate is at most (1+eps)*adv when adv > 0 and at least (1-eps)*adv
\* when adv < 0.
C7_SurrogateBounded ==
  pc = "l214" =>
    LET term == surr_min(sur1, sur2)[1]
        ad   == adv[idx[1]]
    IN  /\ ad > 0 => term <= (10 + 1) * ad
        /\ ad < 0 => term >= (10 - 1) * ad

\* a pass over the buffer has ended, by running out of batches or by an exception
C8_PassOver ==
  \/ pc = "raised" /\ mb_ended > 0
  \/ pc \in {"l205", "l249"} /\ mb_ended > 0 /\ pos = 0

\* C8: when a pass of Agent.update over the buffer is over, its minibatches
\* are pairwise disjoint, have batch_size indices each except possibly a
\* smaller last one, and together hold every index 0..buffer_capacity-1
\* exactly once.
C8_MinibatchesPartitionBuffer ==
  C8_PassOver =>
    /\ \A b \in 1..Len(batches) : \A x, y \in 1..Len(batches[b]) :
         x # y => batches[b][x] # batches[b][y]
    /\ \A b, c \in 1..Len(batches) : b # c => Range(batches[b]) \cap Range(batches[c]) = {}
    /\ \A b \in 1..(Len(batches) - 1) : Len(batches[b]) = batch_size
    /\ Len(batches) > 0 => Len(batches[Len(batches)]) \in 1..batch_size
    /\ UNION { Range(batches[b]) : b \in 1..Len(batches) } = 0..(buffer_capacity - 1)

\* C9: the policy loss of every minibatch iteration is the negated mean of
\* that minibatch's clipped surrogate alone: it has a value on the first
\* minibatch and holds nothing of an earlier minibatch.
C9_PolicyLossPerMinibatch ==
  mb_ended > 0 => action_loss = << 0 - mean(surr_min(sur1, sur2)) >>

\* C10: whenever update is about to start in the driver, every buffer slot
\* holds a transition stored since the previous update (since start-up for
\* the first), its log-probability taken under the current parameters.
C10_BufferFreshAtUpdate ==
  pc = "l247" =>
    \A k \in 0..(buffer_capacity - 1) :
      /\ buffer[k] # Garbage
      /\ slot_cycle[k] = training_step
      /\ buffer[k].a_logp = net_ver

C10_Witness ==
  /\ pc = "l247"
  /\ i_ep > 0
  /\ \A k \in 0..(buffer_capacity - 1) : slot_cycle[k] = 0

====
